---------------------------- MODULE Spec2Model ----------------------------
(* A model of src/actions/packaging.rs of ciel-rs: the package-group      *)
(* reader, the package-list expander, and the fetch and build             *)
(* orchestrators driving a container through its collaborator calls.      *)
(*                                                                        *)
(* Strings that the code inspects (tokens, file lines, paths) are         *)
(* sequences of one-character strings, so that starts_with, trim and      *)
(* Path::join compute on characters. Fixed command words are TLA+ strings. *)
EXTENDS Integers, Sequences, FiniteSets, TLC

VARIABLES
    config,     \* the workspace configuration as config::read_config finds it
    cwd,        \* the top-level entries of the working directory, by name
    walk,       \* cleanup_outputs: the entries its walk has yet to yield
    tree,       \* the group files below ./TREE: path -> sequence of raw lines
    env,        \* the process environment: TRUE iff CIEL_OFFLINE is set
    fn,         \* the entry point the process is in
    pc,         \* the position inside it
    args,       \* its `packages` argument, the raw tokens in input order
    offline,    \* package_build's `offline` argument
    conf,       \* package_build's loaded configuration
    tok,        \* expand_package_list: the position of its loop over the tokens
    expanded,   \* expand_package_list: its `expanded` vector
    stack,      \* the read_package_list calls in progress, the innermost last
    packages,   \* package_build: the expanded package list (line 139)
    index,      \* the loop index of line 142
    trace,      \* the collaborator calls issued by the current entry point
    log,        \* the messages written by the current entry point
    ret         \* the value the entry point returned

vars == <<config, cwd, walk, tree, env, fn, pc, args, offline, conf, tok, expanded, stack, packages,
          index, trace, log, ret>>

-----------------------------------------------------------------------------
(* Bounds of the model.                                                   *)

\* Longest token list given to expand_package_list in SpecExpand.
MaxTokens == 3
\* Longest token list given to package_fetch and package_build in Spec.
MaxPkgs == 2
\* Longest token list given to expand_package_list in SpecChains.
MaxChainTokens == 2

-----------------------------------------------------------------------------
(* Strings.                                                               *)

\* line 31: the deepest depth at which a group file is still read
MaxDepth == 32

GroupPrefix == <<"g", "r", "o", "u", "p", "s", "/">>
TreeRoot == <<".", "/", "T", "R", "E", "E">>
CommentMark == <<"#">>
Whitespace == {" ", "\t"}

\* str::starts_with
starts_with(s, p) ==
    /\ Len(s) >= Len(p)
    /\ SubSeq(s, 1, Len(p)) = p

RECURSIVE trim_start(_)
trim_start(s) ==
    IF s # <<>> /\ Head(s) \in Whitespace THEN trim_start(Tail(s)) ELSE s

RECURSIVE trim_end(_)
trim_end(s) ==
    IF s # <<>> /\ s[Len(s)] \in Whitespace
    THEN trim_end(SubSeq(s, 1, Len(s) - 1))
    ELSE s

\* str::trim
trim(s) == trim_end(trim_start(s))

\* Path::new("./TREE").join(token), for a relative token
TreePath(token) == TreeRoot \o <<"/">> \o token

\* A line that BufRead::lines cannot decode (line 40 returns its error).
BadLine == <<"\\xff">>

-----------------------------------------------------------------------------
(* Result values.                                                         *)

Ok(v) == [ok |-> TRUE, val |-> v]
Err(e) == [ok |-> FALSE, err |-> e]

DepthError == "Nested group exceeded 32 levels! Potential infinite loop."
IoError == "io error"
ConfigError == "Please configure this workspace first!"

NotReturned == [pending |-> TRUE]

\* `return r` from the entry point
Return(r) ==
    /\ ret' = r
    /\ pc' = "done"

-----------------------------------------------------------------------------
(* The group files and the tokens the model draws its inputs from.        *)

P1 == <<"p", "1">>
P2 == <<"p", "2">>
P3 == <<"p", "3">>
Ga == GroupPrefix \o <<"a">>
Gb == GroupPrefix \o <<"b">>
Gq == GroupPrefix \o <<"q">>
Gloop == GroupPrefix \o <<"l">>
Gmissing == GroupPrefix \o <<"m">>

\* A tree in which every reference to a file resolves: a comment, padded
\* lines, a group nested twice (once behind whitespace), an indented '#'
\* line, an empty line and an empty file.
TreeGood ==
    (TreePath(Ga) :> <<P1, <<"#", "p", "9">>, <<" ">> \o P2 \o <<"\t">>>>)
    @@ (TreePath(Gb) :> <<Ga, P3, <<" ">> \o Ga>>)
    @@ (TreePath(Gq) :> << <<" ", "#", "x">>, <<>> >>)
    @@ (TreePath(Gloop) :> <<>>)

\* A tree with failures: a reference to a missing file between two literals,
\* a line that cannot be decoded, and a group that references itself.
TreeFaulty ==
    (TreePath(Ga) :> <<P2>>)
    @@ (TreePath(Gb) :> <<P1, Gmissing, P3>>)
    @@ (TreePath(Gq) :> <<P1, BadLine, P2>>)
    @@ (TreePath(Gloop) :> <<P1, Gloop>>)

Trees == {TreeGood, TreeFaulty}

ExpandTokens == {P1, Ga, Gb, Gq, Gloop, Gmissing}
BuildTokens == {P3, Ga, Gloop}

\* All sequences over S of length at most n.
SeqUpTo(S, n) == UNION {[1..k -> S] : k \in 0..n}

ExpandInputs == SeqUpTo(ExpandTokens, MaxTokens)
BuildInputs == SeqUpTo(BuildTokens, MaxPkgs)

\* The group token named by k repetitions of the character c.
Chain(c, k) == GroupPrefix \o [i \in 1..k |-> c]

\* The files of a chain of n groups: each holds a literal, a reference to the
\* next group of the chain and another literal; the n-th holds `last`.
ChainFiles(c, n, last) ==
    [p \in {TreePath(Chain(c, k)) : k \in 1..n} |->
        IF Len(p) = Len(TreePath(Chain(c, n)))
        THEN last
        ELSE <<P1, SubSeq(p, Len(TreeRoot) + 2, Len(p)) \o <<c>>, P2>>]

\* A tree with nesting at the depth limit: the chain of "c" ends in a file of
\* one literal that is read at depth 32; the chain of "d" goes one reference
\* further, to a file that does not exist; and a group references itself.
TreeChains ==
    ChainFiles("c", MaxDepth + 1, <<P3>>)
    @@ ChainFiles("d", MaxDepth + 1, <<Chain("d", MaxDepth + 2)>>)
    @@ (TreePath(Gloop) :> <<P1, Gloop>>)

ChainTokens == {Chain("c", 1), Chain("d", 1), Gloop}
ChainInputs == SeqUpTo(ChainTokens, MaxChainTokens)

-----------------------------------------------------------------------------
(* read_package_list, lines 30-58. A call in progress is a frame on       *)
(* `stack`; a call that has returned leaves its result on top of the      *)
(* stack for its caller.                                                  *)

\* The frame of read_package_list(filename, depth) at its entry.
Frame(filename, depth) ==
    [filename |-> filename, depth |-> depth, i |-> 1, results |-> <<>>]

Top == stack[Len(stack)]
Callers == SubSeq(stack, 1, Len(stack) - 1)

\* A variant of DepthExceeded that lets one more level through.
DepthExceeded_Late(depth) == depth > MaxDepth + 1

\* line 31
DepthExceeded(depth) == depth > MaxDepth

\* A variant of IsComment that looks at the line after trimming it.
IsComment_AfterTrim(line) == starts_with(trim(line), CommentMark)

\* line 42
IsComment(line) == starts_with(line, CommentMark)

\* lines 48 and 64
IsGroupRef(s) == starts_with(s, GroupPrefix)

\* line 50: the depth of the nested call
NestedDepth(depth) == depth + 1

\* A variant of ExtendResults that puts the nested tokens first.
ExtendResults_Prepend(results, nested) == nested \o results

\* line 51
ExtendResults(results, nested) == results \o nested

\* line 54
PushResult(results, trimmed) == Append(results, trimmed)

\* lines 31-36: the depth check, then the open
ReadEnter ==
    /\ pc = "r_enter"
    /\ IF DepthExceeded(Top.depth)
       THEN /\ stack' = Append(Callers, Err(DepthError))
            /\ pc' = "r_return"
       ELSE IF Top.filename \notin DOMAIN tree
       THEN /\ stack' = Append(Callers, Err(IoError))
            /\ pc' = "r_return"
       ELSE /\ stack' = stack
            /\ pc' = "r_line"
    /\ UNCHANGED <<config, cwd, walk, tree, env, fn, args, offline, conf, tok,
                   expanded, packages, index, trace, log, ret>>

\* lines 39-57: one turn of the loop over the lines, or the return after it
ReadLine ==
    /\ pc = "r_line"
    /\ LET f == Top
           lines == tree[f.filename]
       IN
       IF f.i > Len(lines)
       THEN /\ stack' = Append(Callers, Ok(f.results))
            /\ pc' = "r_return"
       ELSE LET line == lines[f.i]
                trimmed == trim(line)
            IN
            IF line = BadLine
            THEN /\ stack' = Append(Callers, Err(IoError))
                 /\ pc' = "r_return"
            ELSE IF IsComment(line)
            THEN /\ stack' = Append(Callers, [f EXCEPT !.i = f.i + 1])
                 /\ pc' = "r_line"
            ELSE IF IsGroupRef(trimmed)
            THEN /\ stack' = Append(stack, Frame(TreePath(trimmed), NestedDepth(f.depth)))
                 /\ pc' = "r_enter"
            ELSE /\ stack' = Append(Callers, [f EXCEPT !.i = f.i + 1,
                                                       !.results = PushResult(f.results, trimmed)])
                 /\ pc' = "r_line"
    /\ UNCHANGED <<config, cwd, walk, tree, env, fn, args, offline, conf, tok,
                   expanded, packages, index, trace, log, ret>>

-----------------------------------------------------------------------------
(* expand_package_list, lines 61-81.                                      *)

InfoRead(n, package) ==
    [level |-> "info", msg |-> "Read packages from", n |-> n, package |-> package]
WarnUnable(package, e) ==
    [level |-> "warn", msg |-> "Unable to read package group", package |-> package, err |-> e]

\* lines 70-73: what a resolved group leaves in `expanded`
ExpandedAfterOk(exp, list) == exp \o list

\* A variant of ExpandedAfterErr in which a failed group discards what was
\* collected before it.
ExpandedAfterErr_Cleared(exp) == <<>>

\* lines 74-76: what a failed group leaves in `expanded`
ExpandedAfterErr(exp) == exp

\* A variant of Propagated in which the enclosing call takes a failed nested
\* group for an empty one and returns nothing itself.
Propagated_AsEmpty(r) == Ok(<<>>)

\* line 50: what `?` returns from the enclosing call for a nested error r
Propagated(r) == r

\* lines 50-52 and 69-77: the innermost call has returned r. Inside another
\* read_package_list the `?` of line 50 passes an error on and line 51 extends
\* the caller's results; in expand_package_list the match of line 69 takes it.
ReadReturn ==
    /\ pc = "r_return"
    /\ LET r == Top IN
       IF Callers # <<>>
       THEN LET f == Callers[Len(Callers)]
                below == SubSeq(Callers, 1, Len(Callers) - 1)
            IN
            /\ IF r.ok
               THEN /\ stack' = Append(below, [f EXCEPT !.i = f.i + 1,
                                                        !.results = ExtendResults(f.results, r.val)])
                    /\ pc' = "r_line"
               ELSE /\ stack' = Append(below, Propagated(r))
                    /\ pc' = "r_return"
            /\ UNCHANGED <<tok, expanded, log>>
       ELSE /\ stack' = <<>>
            /\ pc' = "x_loop"
            /\ tok' = tok + 1
            /\ IF r.ok
               THEN /\ expanded' = ExpandedAfterOk(expanded, r.val)
                    /\ log' = Append(log, InfoRead(Len(r.val), args[tok]))
               ELSE /\ expanded' = ExpandedAfterErr(expanded)
                    /\ log' = Append(log, WarnUnable(args[tok], r.err))
    /\ UNCHANGED <<config, cwd, walk, tree, env, fn, args, offline, conf,
                   packages, index, trace, ret>>

\* A variant of LoopContinues that stops before the last package.
LoopContinues_SkipLast(i, total) == i + 1 < total

\* line 142: the loop goes on while a package is left
LoopContinues(i, total) == i < total

\* lines 63-68 and 80: one turn of the loop over the tokens, or the return.
\* Returned into line 139 of package_build, the list becomes `packages` and
\* the loop of line 142 is entered.
ExpandToken ==
    /\ pc = "x_loop"
    /\ IF tok > Len(args)
       THEN /\ IF fn = "package_build"
               THEN /\ packages' = expanded
                    /\ pc' = IF LoopContinues(0, Len(expanded)) THEN "l_mount" ELSE "b_summary"
                    /\ UNCHANGED ret
               ELSE /\ Return(Ok(expanded))
                    /\ UNCHANGED packages
            /\ UNCHANGED <<tok, expanded, stack>>
       ELSE IF ~IsGroupRef(args[tok])
       THEN /\ expanded' = Append(expanded, args[tok])
            /\ tok' = tok + 1
            /\ UNCHANGED <<pc, stack, packages, ret>>
       ELSE /\ stack' = <<Frame(TreePath(args[tok]), 0)>>
            /\ pc' = "r_enter"
            /\ UNCHANGED <<tok, expanded, packages, ret>>
    /\ UNCHANGED <<config, cwd, walk, tree, env, fn, args, offline, conf, index,
                   trace, log>>

-----------------------------------------------------------------------------
(* The collaborators: what a call can answer, and how it is recorded.     *)

\* An exit status of run_in_container (an i32; 0 means success).
ExitCodes == {0, 1, 2}

\* config::read_config: the configuration of the workspace, or NoConf when
\* it is missing or invalid and read_config fails
Configs == [local_sources : BOOLEAN, local_repo : BOOLEAN, sep_mount : BOOLEAN]
NoConf == [loaded |-> FALSE]
read_config == config

-----------------------------------------------------------------------------
(* The working directory, as WalkDir::new(".").max_depth(1) sees it: its  *)
(* top-level entries by name, each a directory with the names below it, a *)
(* file or a symbolic link.                                               *)

OutputPrefix == <<"O", "U", "T", "P", "U", "T", "-">>

Dir(children) == [kind |-> "dir", children |-> children]
File == [kind |-> "file", children |-> {}]
Symlink == [kind |-> "symlink", children |-> {}]

\* Directories named with the prefix (one of them by the prefix alone), a
\* file and a link named with it, directories named in another case, without
\* the dash and with the prefix inside, and a directory named with the
\* prefix below another directory.
DirSample ==
    (OutputPrefix \o <<"a">> :> Dir({<<"d", "e", "b", "s">>, OutputPrefix \o <<"n">>}))
    @@ (OutputPrefix :> Dir({}))
    @@ (OutputPrefix \o <<"f">> :> File)
    @@ (OutputPrefix \o <<"l">> :> Symlink)
    @@ (<<"o", "u", "t", "p", "u", "t", "-", "a">> :> Dir({<<"x">>}))
    @@ (<<"O", "U", "T", "P", "U", "T">> :> Dir({}))
    @@ (<<"T", "R", "E", "E">> :> Dir({OutputPrefix \o <<"n">>}))

\* Every directory made of some of these entries.
Restrict(f, S) == [x \in S |-> f[x]]
Dirs == {Restrict(DirSample, S) : S \in SUBSET DOMAIN DirSample}

\* container::get_output_directory
get_output_directory(sep_mount) == [output_directory |-> TRUE, sep_mount |-> sep_mount]

FetchCmd == <<"/bin/acbs-build", "-g", "--">>
BuildCmd == <<"/bin/acbs-build", "--">>
UpdateCmd == <<"/bin/bash", "-ec", "UPDATE_SCRIPT">>

\* The results of run_in_container: it cannot run the command, or the
\* command's exit status.
RunResults == {Err("run_in_container")} \cup {Ok(s) : s \in ExitCodes}

Mounted(by, failed) == [op |-> "mount_fs", by |-> by, failed |-> failed]
RolledBack(by, failed) == [op |-> "rollback_container", by |-> by, failed |-> failed]
Refreshed(root, failed) ==
    [op |-> "init_repo", by |-> "package_build", root |-> root, failed |-> failed]
Ran(by, cmd, pkgs, r) ==
    IF r.ok
    THEN [op |-> "run_in_container", by |-> by, cmd |-> cmd, pkgs |-> pkgs,
          failed |-> FALSE, status |-> r.val]
    ELSE [op |-> "run_in_container", by |-> by, cmd |-> cmd, pkgs |-> pkgs,
          failed |-> TRUE]
SetVar(name, value) ==
    [op |-> "set_var", by |-> "package_build", name |-> name, value |-> value]

Message(level, msg) == [level |-> level, msg |-> msg]
Progress(i, n, package) ==
    [level |-> "info", msg |-> "Building", i |-> i, total |-> n, package |-> package]
Summary(n) == [level |-> "summary", msg |-> "BUILD SUCCESSFUL", total |-> n]

-----------------------------------------------------------------------------
(* The process: it calls an entry point, runs it to its return, takes the *)
(* result, and calls the next. CIEL_OFFLINE and the group files outlive a *)
(* call.                                                                  *)

Init ==
    /\ config \in Configs \cup {NoConf}
    /\ cwd = DirSample
    /\ walk = {}
    /\ tree \in Trees
    /\ env \in BOOLEAN
    /\ fn = "none"
    /\ pc = "idle"
    /\ args = <<>>
    /\ offline = FALSE
    /\ conf = NoConf
    /\ tok = 1
    /\ expanded = <<>>
    /\ stack = <<>>
    /\ packages = <<>>
    /\ index = 0
    /\ trace = <<>>
    /\ log = <<>>
    /\ ret = NotReturned

Enter(f, pk, off, at) ==
    /\ pc = "idle"
    /\ fn' = f
    /\ pc' = at
    /\ args' = pk
    /\ offline' = off
    /\ UNCHANGED <<config, cwd, walk, tree, env, conf, tok, expanded, stack,
                   packages, index, trace, log, ret>>

CallFetch == \E pk \in BuildInputs : Enter("package_fetch", pk, FALSE, "f_read_config")

CallBuild ==
    \E pk \in BuildInputs, off \in BOOLEAN : Enter("package_build", pk, off, "b_read_config")

CallExpand == \E pk \in ExpandInputs : Enter("expand_package_list", pk, FALSE, "x_loop")

\* The caller has the returned value; the entry point's locals are gone.
Resume ==
    /\ pc = "done"
    /\ fn' = "none"
    /\ pc' = "idle"
    /\ args' = <<>>
    /\ offline' = FALSE
    /\ conf' = NoConf
    /\ tok' = 1
    /\ expanded' = <<>>
    /\ stack' = <<>>
    /\ packages' = <<>>
    /\ index' = 0
    /\ trace' = <<>>
    /\ log' = <<>>
    /\ ret' = NotReturned
    /\ walk' = {}
    /\ UNCHANGED <<config, cwd, tree, env>>

-----------------------------------------------------------------------------
(* package_fetch, lines 84-105; also run from line 121 of package_build.  *)

\* A variant of PrefetchPropagates that goes on after a failed pre-fetch.
PrefetchPropagates_Never(r) == FALSE

\* line 121: `package_fetch(..)?` inside package_build gives up on an Err only
PrefetchPropagates(r) == ~r.ok

\* The return of package_fetch: to the process, or into line 121.
FetchReturn(r) ==
    IF fn = "package_fetch" \/ PrefetchPropagates(r)
    THEN Return(r)
    ELSE /\ pc' = "b_set_var"
         /\ UNCHANGED ret

\* A variant of FetchValue that raises a nonzero exit status as an error.
FetchValue_Raises(r) == IF r.ok /\ r.val # 0 THEN Err("fetch failed") ELSE r

\* lines 102-104: the value package_fetch returns for the command's result
FetchValue(r) == r

\* lines 88-95
FetchReadConfig ==
    /\ pc = "f_read_config"
    /\ LET c == read_config IN
       IF c = NoConf
       THEN /\ FetchReturn(Err(ConfigError))
            /\ UNCHANGED log
       ELSE /\ pc' = "f_mount"
            /\ log' = IF ~c.local_sources
                      THEN Append(log, Message("warn", "without local sources caching"))
                      ELSE log
            /\ UNCHANGED ret
    /\ UNCHANGED <<config, cwd, walk, tree, env, fn, args, offline, conf, tok,
                   expanded, stack, packages, index, trace>>

\* line 97
FetchMount ==
    /\ pc = "f_mount"
    /\ \E failed \in BOOLEAN :
         /\ trace' = Append(trace, Mounted("package_fetch", failed))
         /\ IF failed
            THEN FetchReturn(Err("mount_fs"))
            ELSE pc' = "f_rollback" /\ UNCHANGED ret
    /\ UNCHANGED <<config, cwd, walk, tree, env, fn, args, offline, conf, tok,
                   expanded, stack, packages, index, log>>

\* line 98
FetchRollback ==
    /\ pc = "f_rollback"
    /\ \E failed \in BOOLEAN :
         /\ trace' = Append(trace, RolledBack("package_fetch", failed))
         /\ IF failed
            THEN FetchReturn(Err("rollback_container"))
            ELSE pc' = "f_run" /\ UNCHANGED ret
    /\ UNCHANGED <<config, cwd, walk, tree, env, fn, args, offline, conf, tok,
                   expanded, stack, packages, index, log>>

\* lines 100-104
FetchRun ==
    /\ pc = "f_run"
    /\ \E r \in RunResults :
         /\ trace' = Append(trace, Ran("package_fetch", FetchCmd, args, r))
         /\ FetchReturn(FetchValue(r))
    /\ UNCHANGED <<config, cwd, walk, tree, env, fn, args, offline, conf, tok,
                   expanded, stack, packages, index, log>>

-----------------------------------------------------------------------------
(* package_build, lines 108-171.                                          *)

\* A variant of OfflineRequested that ignores CIEL_OFFLINE.
OfflineRequested_FlagOnly(flag, var) == flag

\* line 119
OfflineRequested(flag, var) == flag \/ var

\* lines 113-120
BuildReadConfig ==
    /\ pc = "b_read_config"
    /\ LET c == read_config IN
       IF c = NoConf
       THEN /\ Return(Err(ConfigError))
            /\ UNCHANGED <<conf, log>>
       ELSE /\ conf' = c
            /\ IF OfflineRequested(offline, env)
               THEN /\ log' = Append(log, Message("info", "Preparing offline mode"))
                    /\ pc' = "f_read_config"
               ELSE /\ log' = log
                    /\ pc' = "b_mount"
            /\ UNCHANGED ret
    /\ UNCHANGED <<config, cwd, walk, tree, env, fn, args, offline, tok,
                   expanded, stack, packages, index, trace>>

\* lines 122-124
BuildSetVar ==
    /\ pc = "b_set_var"
    /\ env' = TRUE
    /\ trace' = Append(trace, SetVar("CIEL_OFFLINE", "ON"))
    /\ log' = Append(log, Message("info", "Running in offline mode"))
    /\ pc' = "b_mount"
    /\ UNCHANGED <<config, cwd, walk, tree, fn, args, offline, conf, tok,
                   expanded, stack, packages, index, ret>>

\* line 127
BuildMount ==
    /\ pc = "b_mount"
    /\ \E failed \in BOOLEAN :
         /\ trace' = Append(trace, Mounted("package_build", failed))
         /\ IF failed
            THEN Return(Err("mount_fs"))
            ELSE pc' = "b_rollback" /\ UNCHANGED ret
    /\ UNCHANGED <<config, cwd, walk, tree, env, fn, args, offline, conf, tok,
                   expanded, stack, packages, index, log>>

\* A variant of AfterRollback with the test of local_repo inverted.
AfterRollback_Swapped(c) == IF c.local_repo THEN "b_remote_run" ELSE "b_expand"

\* line 130: the branch taken after the first rollback
AfterRollback(c) == IF ~c.local_repo THEN "b_remote_run" ELSE "b_expand"

\* lines 128-130
BuildRollback ==
    /\ pc = "b_rollback"
    /\ \E failed \in BOOLEAN :
         /\ trace' = Append(trace, RolledBack("package_build", failed))
         /\ IF failed
            THEN Return(Err("rollback_container"))
            ELSE pc' = AfterRollback(conf) /\ UNCHANGED ret
    /\ UNCHANGED <<config, cwd, walk, tree, env, fn, args, offline, conf, tok,
                   expanded, stack, packages, index, log>>

\* lines 131-132: the packages of the single build command
RemotePackages(raw) == raw

\* lines 131-134
BuildRemoteRun ==
    /\ pc = "b_remote_run"
    /\ \E r \in RunResults :
         /\ trace' = Append(trace, Ran("package_build", BuildCmd, RemotePackages(args), r))
         /\ Return(r)
    /\ UNCHANGED <<config, cwd, walk, tree, env, fn, args, offline, conf, tok,
                   expanded, stack, packages, index, log>>

\* lines 137-139: current_dir may fail; then expand_package_list is called
BuildExpand ==
    /\ pc = "b_expand"
    /\ \/ Return(Err("current_dir"))
       \/ /\ pc' = "x_loop"
          /\ UNCHANGED ret
    /\ UNCHANGED <<config, cwd, walk, tree, env, fn, args, offline, conf, tok,
                   expanded, stack, packages, index, trace, log>>

\* line 140
total == Len(packages)

\* A variant of LoopPackage that walks the list from its end.
LoopPackage_Reversed(pkgs, i) == pkgs[Len(pkgs) - i]

\* line 142: the package of the iteration with loop index i
LoopPackage(pkgs, i) == pkgs[i + 1]

\* lines 144-147
LoopMount ==
    /\ pc = "l_mount"
    /\ log' = Append(log, Progress(index + 1, total, LoopPackage(packages, index)))
    /\ \E failed \in BOOLEAN :
         /\ trace' = Append(trace, Mounted("package_build", failed))
         /\ IF failed
            THEN Return(Err("mount_fs"))
            ELSE pc' = "l_init_repo" /\ UNCHANGED ret
    /\ UNCHANGED <<config, cwd, walk, tree, env, fn, args, offline, conf, tok,
                   expanded, stack, packages, index>>

\* lines 148-149
LoopInitRepo ==
    /\ pc = "l_init_repo"
    /\ log' = Append(log, Message("info", "Refreshing local repository"))
    /\ \E failed \in BOOLEAN :
         /\ trace' = Append(trace, Refreshed(get_output_directory(conf.sep_mount), failed))
         /\ IF failed
            THEN Return(Err("init_repo"))
            ELSE pc' = "l_update" /\ UNCHANGED ret
    /\ UNCHANGED <<config, cwd, walk, tree, env, fn, args, offline, conf, tok,
                   expanded, stack, packages, index>>

\* A variant of UpdateAborts that lets the run go on after any status.
UpdateAborts_Never(status) == FALSE

\* line 151: the update script's status ends the run
UpdateAborts(status) == status # 0

\* A variant of BuildAborts that lets the run go on after any status.
BuildAborts_Never(status) == FALSE

\* line 156: the build's status ends the run
BuildAborts(status) == status # 0

\* A variant of AbortValue that reports an aborted run as a success.
AbortValue_Zero(status) == Ok(0)

\* lines 153 and 158: the value returned for a status that ends the run
AbortValue(status) == Ok(status)

\* lines 150-154
LoopUpdate ==
    /\ pc = "l_update"
    /\ \E r \in RunResults :
         /\ trace' = Append(trace, Ran("package_build", UpdateCmd, <<>>, r))
         /\ IF ~r.ok
            THEN Return(r) /\ UNCHANGED log
            ELSE IF UpdateAborts(r.val)
            THEN /\ log' = Append(log, Message("error", "Failed to update the OS"))
                 /\ Return(AbortValue(r.val))
            ELSE /\ pc' = "l_build"
                 /\ UNCHANGED <<ret, log>>
    /\ UNCHANGED <<config, cwd, walk, tree, env, fn, args, offline, conf, tok,
                   expanded, stack, packages, index>>

\* lines 155-159
LoopBuild ==
    /\ pc = "l_build"
    /\ \E r \in RunResults :
         /\ trace' = Append(trace, Ran("package_build", BuildCmd,
                                       <<LoopPackage(packages, index)>>, r))
         /\ IF ~r.ok
            THEN Return(r) /\ UNCHANGED log
            ELSE IF BuildAborts(r.val)
            THEN /\ log' = Append(log, Message("error", "Build failed with status"))
                 /\ Return(AbortValue(r.val))
            ELSE /\ pc' = "l_rollback"
                 /\ UNCHANGED <<ret, log>>
    /\ UNCHANGED <<config, cwd, walk, tree, env, fn, args, offline, conf, tok,
                   expanded, stack, packages, index>>

\* lines 160-161 and the loop test of line 142
LoopRollback ==
    /\ pc = "l_rollback"
    /\ \E failed \in BOOLEAN :
         /\ trace' = Append(trace, RolledBack("package_build", failed))
         /\ IF failed
            THEN Return(Err("rollback_container")) /\ UNCHANGED index
            ELSE /\ index' = index + 1
                 /\ pc' = IF LoopContinues(index + 1, total) THEN "l_mount" ELSE "b_summary"
                 /\ UNCHANGED ret
    /\ UNCHANGED <<config, cwd, walk, tree, env, fn, args, offline, conf, tok,
                   expanded, stack, packages, log>>

\* A variant of SummaryValue that takes a run without packages for a failure.
SummaryValue_NeedsPackages(n) == IF n = 0 THEN Err("nothing to build") ELSE Ok(0)

\* line 170: the value returned after the summary of n packages
SummaryValue(n) == Ok(0)

\* lines 162-170
BuildSummary ==
    /\ pc = "b_summary"
    /\ log' = Append(log, Summary(total))
    /\ Return(SummaryValue(total))
    /\ UNCHANGED <<config, cwd, walk, tree, env, fn, args, offline, conf, tok,
                   expanded, stack, packages, index, trace>>

-----------------------------------------------------------------------------
(* The specifications.                                                    *)

\* The process calling the public entry points.
Next ==
    \/ CallFetch
    \/ CallBuild
    \/ Resume
    \/ FetchReadConfig
    \/ FetchMount
    \/ FetchRollback
    \/ FetchRun
    \/ BuildReadConfig
    \/ BuildSetVar
    \/ BuildMount
    \/ BuildRollback
    \/ BuildRemoteRun
    \/ BuildExpand
    \/ ExpandToken
    \/ ReadEnter
    \/ ReadLine
    \/ ReadReturn
    \/ LoopMount
    \/ LoopInitRepo
    \/ LoopUpdate
    \/ LoopBuild
    \/ LoopRollback
    \/ BuildSummary

Spec == Init /\ [][Next]_vars

\* expand_package_list alone, applied to every token list of ExpandInputs.
\* The same process started without CIEL_OFFLINE in its environment.
InitUnset == Init /\ env = FALSE

SpecUnset == InitUnset /\ [][Next]_vars

InitExpand == Init /\ env = FALSE /\ config = NoConf

NextExpand ==
    \/ CallExpand
    \/ Resume
    \/ ExpandToken
    \/ ReadEnter
    \/ ReadLine
    \/ ReadReturn

SpecExpand == InitExpand /\ [][NextExpand]_vars

-----------------------------------------------------------------------------
(* format_duration, lines 20-28. The seconds of a Duration built from an  *)
(* elapsed time (line 162) are not negative, so the truncating division   *)
(* of the code and \div agree.                                            *)

DigitChars == <<"0", "1", "2", "3", "4", "5", "6", "7", "8", "9">>

\* The decimal digits of n, as Display writes an integer.
RECURSIVE Decimal(_)
Decimal(n) ==
    IF n < 10 THEN <<DigitChars[n + 1]>>
    ELSE Decimal(n \div 10) \o <<DigitChars[(n % 10) + 1]>>

\* line 23: `{:02}`, zero-padded to a width of at least two
Pad2(n) ==
    LET d == Decimal(n)
    IN  IF Len(d) < 2 THEN <<"0">> \o d ELSE d

\* line 24
Hours(seconds) == seconds \div 3600

\* A variant of Minutes without the reduction modulo 60.
Minutes_Total(seconds) == seconds \div 60

\* line 25
Minutes(seconds) == (seconds \div 60) % 60

\* line 26
Seconds(seconds) == seconds % 60

\* lines 21-27
format_duration(seconds) ==
    Pad2(Hours(seconds)) \o <<":">> \o Pad2(Minutes(seconds)) \o <<":">>
        \o Pad2(Seconds(seconds))

\* The durations formatted: hours of one, two, three and four digits, with
\* minutes and seconds of one and two digits up to 59.
SampleHours == {0, 1, 9, 10, 99, 100, 101, 999, 1000}
SampleSixtieths == {0, 1, 9, 10, 11, 30, 58, 59}
DurationInputs ==
    {h * 3600 + m * 60 + sec :
        h \in SampleHours, m \in SampleSixtieths, sec \in SampleSixtieths}

CallFormat == \E t \in DurationInputs : Enter("format_duration", t, FALSE, "d_format")

FormatDuration ==
    /\ pc = "d_format"
    /\ Return(Ok(format_duration(args)))
    /\ UNCHANGED <<config, cwd, walk, tree, env, fn, args, offline, conf, tok,
                   expanded, stack, packages, index, trace, log>>

NextFormat == CallFormat \/ FormatDuration \/ Resume

InitFormat == Init /\ env = FALSE /\ config = NoConf /\ tree = TreeGood

SpecFormat == InitFormat /\ [][NextFormat]_vars

-----------------------------------------------------------------------------
(* cleanup_outputs, lines 174-186.                                        *)

\* The entry the walk yields first, at depth 0: the working directory.
RootName == <<".">>

\* The kind of the entry of this name, as DirEntry::file_type reports it.
KindOf(name) == IF name = RootName THEN "dir" ELSE cwd[name].kind

\* A variant of IsOutputDir that does not look at the kind of the entry.
IsOutputDir_AnyKind(kind, name) == starts_with(name, OutputPrefix)

\* line 178
IsOutputDir(kind, name) == kind = "dir" /\ starts_with(name, OutputPrefix)

Removal(name, failed) ==
    [op |-> "remove_dir_all", by |-> "cleanup_outputs", name |-> name, failed |-> failed]

CallCleanup == Enter("cleanup_outputs", <<>>, FALSE, "c_start")

\* lines 175-176: the spinner, and the walk over "." and its entries
CleanupStart ==
    /\ pc = "c_start"
    /\ walk' = {RootName} \cup DOMAIN cwd
    /\ pc' = "c_walk"
    /\ UNCHANGED <<config, cwd, tree, env, fn, args, offline, conf, tok,
                   expanded, stack, packages, index, trace, log, ret>>

\* lines 176-185: one turn of the loop, or the return after it. The walk
\* yields the working directory first and its entries in no given order; it
\* may fail to yield an entry, and remove_dir_all may fail, leaving some of
\* what was below the directory.
CleanupEntry ==
    /\ pc = "c_walk"
    /\ IF walk = {}
       THEN /\ log' = Append(log, Message("spinner", "Done."))
            /\ Return(Ok(<<>>))
            /\ UNCHANGED <<cwd, walk, trace>>
       ELSE \E name \in walk :
            /\ RootName \in walk => name = RootName
            /\ \/ /\ Return(Err("walkdir"))
                  /\ UNCHANGED <<cwd, walk, trace, log>>
               \/ /\ ~IsOutputDir(KindOf(name), name)
                  /\ walk' = walk \ {name}
                  /\ UNCHANGED <<cwd, trace, log, pc, ret>>
               \/ /\ IsOutputDir(KindOf(name), name)
                  /\ cwd' = Restrict(cwd, DOMAIN cwd \ {name})
                  /\ trace' = Append(trace, Removal(name, FALSE))
                  /\ walk' = walk \ {name}
                  /\ UNCHANGED <<log, pc, ret>>
               \/ /\ IsOutputDir(KindOf(name), name)
                  /\ \E left \in SUBSET cwd[name].children :
                        cwd' = [cwd EXCEPT ![name].children = left]
                  /\ trace' = Append(trace, Removal(name, TRUE))
                  /\ Return(Err("remove_dir_all"))
                  /\ UNCHANGED <<walk, log>>
    /\ UNCHANGED <<config, tree, env, fn, args, offline, conf, tok, expanded,
                   stack, packages, index>>

\* The configurations cleanup_outputs is run under: none, and one.
CleanupConfigs ==
    {NoConf, [local_sources |-> TRUE, local_repo |-> TRUE, sep_mount |-> FALSE]}

InitCleanup ==
    /\ config \in CleanupConfigs
    /\ cwd \in Dirs
    /\ walk = {}
    /\ tree = TreeGood
    /\ env = FALSE
    /\ fn = "none"
    /\ pc = "idle"
    /\ args = <<>>
    /\ offline = FALSE
    /\ conf = NoConf
    /\ tok = 1
    /\ expanded = <<>>
    /\ stack = <<>>
    /\ packages = <<>>
    /\ index = 0
    /\ trace = <<>>
    /\ log = <<>>
    /\ ret = NotReturned

NextCleanup == CallCleanup \/ CleanupStart \/ CleanupEntry \/ Resume

SpecCleanup == InitCleanup /\ [][NextCleanup]_vars

\* expand_package_list over the tree of chains. A function that has been
\* called runs its steps to its return.
InitChains ==
    /\ config = NoConf
    /\ cwd = DirSample
    /\ walk = {}
    /\ tree = TreeChains
    /\ env = FALSE
    /\ fn = "none"
    /\ pc = "idle"
    /\ args = <<>>
    /\ offline = FALSE
    /\ conf = NoConf
    /\ tok = 1
    /\ expanded = <<>>
    /\ stack = <<>>
    /\ packages = <<>>
    /\ index = 0
    /\ trace = <<>>
    /\ log = <<>>
    /\ ret = NotReturned

CallExpandChains ==
    \E pk \in ChainInputs : Enter("expand_package_list", pk, FALSE, "x_loop")

ExpandSteps == ExpandToken \/ ReadEnter \/ ReadLine \/ ReadReturn

NextChains ==
    \/ CallExpandChains
    \/ Resume
    \/ ExpandToken
    \/ ReadEnter
    \/ ReadLine
    \/ ReadReturn

SpecChains == InitChains /\ [][NextChains]_vars /\ WF_vars(ExpandSteps)

-----------------------------------------------------------------------------
(* Vocabulary of the properties.                                          *)

Done == pc = "done"
InBuild == fn = "package_build"
InFetch == fn = "package_fetch"
InExpand == fn = "expand_package_list"
ConfLoaded == conf # NoConf
LocalRepoMode == InBuild /\ ConfLoaded /\ conf.local_repo
RemoteRepoMode == InBuild /\ ConfLoaded /\ ~conf.local_repo

IsRun(e, by, cmd) == e.op = "run_in_container" /\ e.by = by /\ e.cmd = cmd
IsFetchRun(e) == IsRun(e, "package_fetch", FetchCmd)
IsBuildRun(e) == IsRun(e, "package_build", BuildCmd)
IsUpdateRun(e) == IsRun(e, "package_build", UpdateCmd)
ExitedWith(e, s) == ~e.failed /\ e.status = s
ExitedNonzero(e) == ~e.failed /\ e.status # 0

\* The events of the trace that satisfy P, in order.
Events(P(_)) == SelectSeq(trace, P)
IsOp(e, op) == e.op = op
\* The container and repository calls package_build issued itself.
OwnCall(e) == e.by = "package_build" /\ e.op # "set_var"
Own == Events(OwnCall)
BuildRuns == Events(IsBuildRun)
UpdateRuns == Events(IsUpdateRun)
FetchRuns == Events(IsFetchRun)
IsRefresh(e) == e.op = "init_repo"
Refreshes == Events(IsRefresh)
IsSetVar(e) == e.op = "set_var"
IsRollback(e) == e.op = "rollback_container" /\ e.by = "package_build"
IsMount(e) == e.op = "mount_fs" /\ e.by = "package_build"

Positions(P(_)) == {k \in 1..Len(trace) : P(trace[k])}

IsSummary(m) == m.level = "summary"
SummaryEmitted == \E k \in 1..Len(log) : IsSummary(log[k])
IsWarnUnable(m) == m.level = "warn" /\ m.msg = "Unable to read package group"
Warned == \E k \in 1..Len(log) : IsWarnUnable(log[k])

-----------------------------------------------------------------------------
(* C1. Local-repo mode: when the build invocation of the i-th expanded    *)
(* package exits nonzero with status s, package_build returns s at once:  *)
(* the invocation stays the last collaborator call (no rollback, and no   *)
(* mount, refresh, update script or build for a later package), exactly i *)
(* packages were attempted, and no success summary is written.            *)
C1_BuildFailureReturnsAtOnce ==
    LocalRepoMode =>
        \A k \in 1..Len(trace) :
            (IsBuildRun(trace[k]) /\ ExitedNonzero(trace[k])) =>
                /\ k = Len(trace)
                /\ Done
                /\ ret = Ok(trace[k].status)
                /\ trace[k].pkgs = <<packages[index + 1]>>
                /\ Len(BuildRuns) = index + 1
                /\ Len(UpdateRuns) = index + 1
                /\ Len(Refreshes) = index + 1
                /\ Len(Events(IsMount)) = index + 2
                /\ Len(Events(IsRollback)) = index + 1
                /\ ~SummaryEmitted

\* The second of three packages fails to build with status 2.
C1_Witness ==
    /\ LocalRepoMode /\ Done
    /\ Len(packages) = 3
    /\ index = 1
    /\ Len(BuildRuns) = 2
    /\ ExitedWith(trace[Len(trace)], 2)
    /\ IsBuildRun(trace[Len(trace)])

-----------------------------------------------------------------------------
(* C2. Local-repo mode: when the OS-update script run before the i-th     *)
(* package exits nonzero with status s, package_build returns s at once:  *)
(* the build invocation for package i is never issued, no later package   *)
(* is attempted and no rollback follows.                                  *)
C2_UpdateFailureReturnsAtOnce ==
    LocalRepoMode =>
        \A k \in 1..Len(trace) :
            (IsUpdateRun(trace[k]) /\ ExitedNonzero(trace[k])) =>
                /\ k = Len(trace)
                /\ Done
                /\ ret = Ok(trace[k].status)
                /\ Len(UpdateRuns) = index + 1
                /\ Len(BuildRuns) = index
                /\ Len(Refreshes) = index + 1
                /\ Len(Events(IsRollback)) = index + 1
                /\ ~SummaryEmitted

\* The update script before the second of three packages exits with 1.
C2_Witness ==
    /\ LocalRepoMode /\ Done
    /\ Len(packages) = 3
    /\ index = 1
    /\ IsUpdateRun(trace[Len(trace)])
    /\ ExitedWith(trace[Len(trace)], 1)

-----------------------------------------------------------------------------
(* C3. A nonzero exit of the pre-fetch invocation is fatal to             *)
(* package_build: the run is over, that status is the returned value, and *)
(* no build invocation follows the fetch.                                 *)
C3_PrefetchFailureIsFatal ==
    InBuild =>
        \A k \in 1..Len(trace) :
            (IsFetchRun(trace[k]) /\ ExitedNonzero(trace[k])) =>
                /\ k = Len(trace)
                /\ Done
                /\ ret = Ok(trace[k].status)

-----------------------------------------------------------------------------
(* C4. Local-repo mode: the k-th build invocation is for the k-th         *)
(* expanded package and for it alone; every build invocation before the   *)
(* latest one exited 0; and a run that ends with the success summary has  *)
(* built every expanded package exactly once.                             *)
C4_BuildsFollowExpansionOrder ==
    LocalRepoMode =>
        /\ Len(BuildRuns) <= Len(packages)
        /\ \A k \in 1..Len(BuildRuns) :
            /\ BuildRuns[k].pkgs = <<packages[k]>>
            /\ packages[k] = expanded[k]
            /\ k < Len(BuildRuns) => ExitedWith(BuildRuns[k], 0)
        /\ SummaryEmitted =>
            /\ packages = expanded
            /\ Len(BuildRuns) = Len(packages)

\* A successful run over four packages, the first two differing.
C4_Witness ==
    /\ LocalRepoMode /\ Done /\ SummaryEmitted
    /\ Len(packages) = 4
    /\ packages[1] # packages[2]
    /\ Len(BuildRuns) = 4

-----------------------------------------------------------------------------
(* C5. Local-repo mode, at the return of package_build.                   *)

\* A collaborator call that failed as a call (not: exited nonzero).
Failed(e) == e.op # "set_var" /\ e.failed
NoCallFailed == \A k \in 1..Len(trace) : ~Failed(trace[k])

\* The run got past the first mount and rollback and past current_dir, so
\* expand_package_list has returned the package list.
ExpansionReturned ==
    /\ Len(Own) >= 2
    /\ ~Own[1].failed
    /\ ~Own[2].failed
    /\ ret # Err("current_dir")

\* Every expanded package has had its update script and its build
\* invocation, and each of them exited 0.
AllExitedZero ==
    /\ ExpansionReturned
    /\ Len(UpdateRuns) = Len(packages)
    /\ Len(BuildRuns) = Len(packages)
    /\ \A k \in 1..Len(packages) :
        /\ ExitedWith(UpdateRuns[k], 0)
        /\ ExitedWith(BuildRuns[k], 0)

ReturnedZeroWithSummary ==
    /\ ret = Ok(0)
    /\ \E k \in 1..Len(log) : log[k] = Summary(Len(packages))

\* The runs package_build issued itself, in order.
IsOwnRun(e) == e.op = "run_in_container" /\ e.by = "package_build"
OwnRuns == Events(IsOwnRun)

(* C5 as claimed: the run returns 0 with the success summary if and only  *)
(* if every update script and every build invocation of every expanded    *)
(* package exited 0.                                                      *)
C5_ZeroIffAllExitedZero ==
    (LocalRepoMode /\ Done) => (ReturnedZeroWithSummary <=> AllExitedZero)

(* C5, amended. The run returns 0 with the success summary (counting the  *)
(* expanded packages) if and only if every update script and every build  *)
(* invocation of every expanded package exited 0 and no collaborator call *)
(* failed; a returned status is 0 only together with the summary; and a   *)
(* nonzero returned status is the first nonzero exit status of an update  *)
(* script or build invocation of the run.                                 *)
C5_ZeroIffAllExitedZeroAndNoCallFailed ==
    (LocalRepoMode /\ Done) =>
        /\ ReturnedZeroWithSummary <=> (AllExitedZero /\ NoCallFailed)
        /\ ret.ok => (ret.val = 0 <=> SummaryEmitted)
        /\ (ret.ok /\ ret.val # 0) =>
            /\ OwnRuns # <<>>
            /\ trace[Len(trace)] = OwnRuns[Len(OwnRuns)]
            /\ ExitedWith(OwnRuns[Len(OwnRuns)], ret.val)
            /\ \A k \in 1..(Len(OwnRuns) - 1) : ExitedWith(OwnRuns[k], 0)

\* Three packages built, status 0 returned, the summary counting three.
C5_Witness ==
    /\ LocalRepoMode /\ Done
    /\ Len(packages) = 3
    /\ AllExitedZero
    /\ ReturnedZeroWithSummary

-----------------------------------------------------------------------------
(* C6. Remote-repo mode: package_build's own calls are one mount, one     *)
(* rollback and then one build invocation carrying the raw tokens in      *)
(* input order, group references unexpanded; the invocation is the last   *)
(* call and its exit status, zero or not, is the returned value; nothing  *)
(* is expanded, refreshed or updated, and no summary is written.          *)
C6_RemoteModeRunsOneBuild ==
    RemoteRepoMode =>
        /\ Len(Own) <= 3
        /\ Len(Own) >= 1 => Own[1].op = "mount_fs"
        /\ Len(Own) >= 2 => (Own[2].op = "rollback_container" /\ ~Own[1].failed)
        /\ (Len(Own) = 2 /\ ~Own[2].failed) => pc = "b_remote_run"
        /\ Len(Own) = 3 =>
            /\ ~Own[2].failed
            /\ IsBuildRun(Own[3])
            /\ Own[3].pkgs = args
            /\ Own[3] = trace[Len(trace)]
            /\ Done
            /\ ~Own[3].failed => ret = Ok(Own[3].status)
        /\ (Done /\ ret.ok) => (Len(Own) = 3 /\ ~Own[3].failed)
        /\ expanded = <<>> /\ packages = <<>> /\ tok = 1 /\ stack = <<>>
        /\ Refreshes = <<>> /\ UpdateRuns = <<>>
        /\ ~SummaryEmitted

\* A group reference and a literal, passed on as they are; status 2 returned.
C6_Witness ==
    /\ RemoteRepoMode /\ Done
    /\ args = <<Ga, P3>>
    /\ Len(Own) = 3
    /\ Own[3].pkgs = <<Ga, P3>>
    /\ ret = Ok(2)

-----------------------------------------------------------------------------
(* C7. In package_build, when offline mode is requested (the flag, or     *)
(* CIEL_OFFLINE present at the call) every command package_build runs     *)
(* itself comes after the one fetch invocation, which carries the raw     *)
(* tokens, and after CIEL_OFFLINE was set, which happens right after the  *)
(* fetch pass; when it is not requested, no call of package_fetch is      *)
(* issued and CIEL_OFFLINE is not set.                                    *)
C7_PrefetchBeforeBuilds ==
    InBuild =>
        /\ Len(FetchRuns) <= 1
        /\ \A k \in 1..Len(FetchRuns) : FetchRuns[k].pkgs = args
        /\ ~(offline \/ env) =>
            \A k \in 1..Len(trace) : trace[k].by # "package_fetch" /\ ~IsSetVar(trace[k])
        /\ \A s \in Positions(IsSetVar) :
            /\ env
            /\ s > 1
            /\ IsFetchRun(trace[s - 1])
            /\ ~trace[s - 1].failed
        /\ (offline \/ env) =>
            \A k \in Positions(IsOwnRun) :
                \E j, s \in 1..k :
                    /\ j < s /\ s < k
                    /\ IsFetchRun(trace[j])
                    /\ IsSetVar(trace[s])

\* Offline by CIEL_OFFLINE alone: the fetch got the group reference, the
\* first build its first package.
C7_Witness ==
    /\ LocalRepoMode /\ Done /\ ~offline
    /\ args = <<Ga>>
    /\ Len(FetchRuns) = 1
    /\ FetchRuns[1].pkgs = <<Ga>>
    /\ BuildRuns # <<>>
    /\ BuildRuns[1].pkgs # args

-----------------------------------------------------------------------------
(* C8. package_fetch with a loaded configuration mounts, rolls back and   *)
(* then runs one fetch invocation over the raw tokens in input order,     *)
(* each step only after the one before succeeded; it returns the          *)
(* invocation's exit status as a value, zero or not, and an error only    *)
(* for a call that failed; local_sources = false adds one warning and     *)
(* nothing else.                                                          *)
C8_FetchMountsRollsBackRunsOnce ==
    InFetch =>
        /\ Len(trace) <= 3
        /\ Len(trace) >= 1 => trace[1] = Mounted("package_fetch", trace[1].failed)
        /\ Len(trace) >= 2 =>
            (~trace[1].failed /\ trace[2] = RolledBack("package_fetch", trace[2].failed))
        /\ Len(trace) = 3 =>
            /\ ~trace[2].failed
            /\ IsFetchRun(trace[3])
            /\ trace[3].pkgs = args
            /\ Done
        /\ Done =>
            IF ret.ok
            THEN Len(trace) = 3 /\ ExitedWith(trace[3], ret.val)
            ELSE \/ trace = <<>> /\ ret = Err(ConfigError)
                 \/ trace # <<>> /\ trace[Len(trace)].failed
        /\ Len(log) <= 1
        /\ \A k \in 1..Len(log) : log[k] = Message("warn", "without local sources caching")

\* Two tokens fetched without local sources: the warning, and status 2.
C8_Witness ==
    /\ InFetch /\ Done
    /\ Len(args) = 2
    /\ Len(log) = 1
    /\ Len(trace) = 3
    /\ ret = Ok(2)

-----------------------------------------------------------------------------
(* C9 and C10. The flattening the expansion is compared with, defined on  *)
(* the tree alone: a literal stays, a group reference stands for the      *)
(* tokens of its file in file order (every line that does not begin with  *)
(* `#`, trimmed), a nested reference standing for the tokens of its own   *)
(* file. A chain of files that does not repeat is no longer than the      *)
(* number of files, which bounds the descent.                             *)

RECURSIVE TokensOfFile(_, _, _), TokensOfLines(_, _, _)
TokensOfLines(t, lines, fuel) ==
    IF lines = <<>> THEN <<>>
    ELSE LET line == Head(lines)
             token == trim(line)
             here ==
                IF starts_with(line, <<"#">>) THEN <<>>
                ELSE IF starts_with(token, GroupPrefix)
                     THEN TokensOfFile(t, TreePath(token), fuel - 1)
                     ELSE <<token>>
         IN  here \o TokensOfLines(t, Tail(lines), fuel)
TokensOfFile(t, path, fuel) ==
    IF fuel = 0 \/ path \notin DOMAIN t THEN <<>>
    ELSE TokensOfLines(t, t[path], fuel)

RECURSIVE Flatten(_, _)
Flatten(t, tokens) ==
    IF tokens = <<>> THEN <<>>
    ELSE LET token == Head(tokens)
             here ==
                IF starts_with(token, GroupPrefix)
                THEN TokensOfFile(t, TreePath(token), Cardinality(DOMAIN t))
                ELSE <<token>>
         IN  here \o Flatten(t, Tail(tokens))

\* The group references of the input, and the log entry each one left:
\* the k-th entry belongs to the k-th group reference.
GroupPositions == {i \in 1..Len(args) : starts_with(args[i], GroupPrefix)}
Rank(i) == Cardinality({j \in GroupPositions : j <= i})
DroppedPositions == {i \in GroupPositions : IsWarnUnable(log[Rank(i)])}

\* The input without the tokens whose resolution failed.
KeptTokens ==
    LET F[i \in 0..Len(args)] ==
            IF i = 0 THEN <<>>
            ELSE IF i \in DroppedPositions THEN F[i - 1]
            ELSE Append(F[i - 1], args[i])
    IN  F[Len(args)]

(* C9. When no group reference of the input failed to resolve, the list   *)
(* expand_package_list returns is the depth-first, left-to-right          *)
(* flattening of its input, with repeated contents kept once per          *)
(* reference.                                                             *)
C9_ExpansionIsFlattening ==
    (InExpand /\ Done /\ ~Warned) => ret = Ok(Flatten(tree, args))

\* A group nesting another twice, a literal, and the nested group again:
\* eight tokens, p1 and p2 three times over.
C9_Witness ==
    /\ InExpand /\ Done /\ ~Warned
    /\ tree = TreeGood
    /\ args = <<Gb, P1, Ga>>
    /\ ret = Ok(<<P1, P2, P3, P1, P2, P1, P1, P2>>)

(* C10. expand_package_list always returns a list; every group reference  *)
(* of the input leaves one log entry naming it, a warning when its        *)
(* resolution failed (as it must when its file is missing); and the list  *)
(* returned is the flattening of the input with the failed references     *)
(* removed, so the tokens before and after a failed reference contribute  *)
(* as if it were absent.                                                  *)
C10_FailedGroupIsSkipped ==
    (InExpand /\ Done) =>
        /\ ret.ok
        /\ Len(log) = Cardinality(GroupPositions)
        /\ \A i \in GroupPositions :
            /\ log[Rank(i)].package = args[i]
            /\ TreePath(args[i]) \notin DOMAIN tree => i \in DroppedPositions
            /\ i \notin DroppedPositions =>
                log[Rank(i)] = InfoRead(Len(Flatten(tree, <<args[i]>>)), args[i])
        /\ ret.val = Flatten(tree, KeptTokens)

\* A group that resolves, then one that nests itself past the depth limit,
\* then a literal: the first and the last contribute, the second warns.
C10_Witness ==
    /\ InExpand /\ Done
    /\ tree = TreeFaulty
    /\ args = <<Ga, Gloop, P1>>
    /\ Len(log) = 2
    /\ log[2] = WarnUnable(Gloop, DepthError)
    /\ ret = Ok(<<P2, P1>>)

-----------------------------------------------------------------------------
(* C11. Group resolution under the depth cap.                             *)

IsFrame(x) == "depth" \in DOMAIN x
Reading == stack # <<>> /\ IsFrame(Top)

\* The calls in progress are at depths 0, 1, 2, ... from the outermost in,
\* none deeper than one past the cap.
DepthsCountNesting ==
    /\ Len(stack) <= MaxDepth + 2
    /\ \A k \in 1..Len(stack) : IsFrame(stack[k]) => stack[k].depth = k - 1

\* What a call does at its entry: past depth 32 it fails with the
\* depth-exceeded error whatever its file; up to depth 32 it fails only when
\* its file cannot be opened, with the I/O error, and otherwise reads.
EntryChecksDepthFirst ==
    pc = "r_enter" =>
        IF Top.depth > MaxDepth
        THEN pc' = "r_return" /\ stack'[Len(stack')] = Err(DepthError)
        ELSE IF Top.filename \in DOMAIN tree
        THEN pc' = "r_line" /\ stack' = stack
        ELSE pc' = "r_return" /\ stack'[Len(stack')] = Err(IoError)

\* The log entry each chain leaves: the chain whose last file is at depth 32
\* resolves, with both literals of each of its 32 inner files and the one of
\* the last; the chain that goes one file further and the group that
\* references itself fail with the depth-exceeded error.
ChainsResolveToTheCap ==
    (Done /\ tree = TreeChains) =>
        \A i \in GroupPositions :
            log[Rank(i)] =
                IF args[i] = Chain("c", 1)
                THEN InfoRead(2 * MaxDepth + 1, args[i])
                ELSE WarnUnable(args[i], DepthError)

(* C11. The top-level group file is read at depth 0 and a nested one at   *)
(* its parent's depth plus one; a call at depth 33 fails with the         *)
(* depth-exceeded error before its file is opened, a call at depth 32 or  *)
(* less reads its file; a chain ending at depth 32 resolves, a longer one *)
(* and a group that references itself fail with depth-exceeded; and every *)
(* expansion that is called returns.                                      *)
C11_ResolutionTerminatesUnderCap ==
    /\ [](DepthsCountNesting /\ ChainsResolveToTheCap)
    /\ [][EntryChecksDepthFirst]_vars
    /\ (InExpand ~> Done)

\* The chain that overflows onto a missing file, then the chain that ends at
\* depth 32, read from depth 0 again.
C11_Witness ==
    /\ InExpand /\ Done
    /\ args = <<Chain("d", 1), Chain("c", 1)>>
    /\ log = <<WarnUnable(Chain("d", 1), DepthError),
               InfoRead(2 * MaxDepth + 1, Chain("c", 1))>>
    /\ Len(ret.val) = 2 * MaxDepth + 1

-----------------------------------------------------------------------------
(* C12. What one line of a group file contributes.                        *)

\* A line without its leading and trailing whitespace: what lies between
\* its first and its last character that is not whitespace.
Stripped(line) ==
    LET solid == {i \in 1..Len(line) : line[i] \notin {" ", "\t"}}
    IN  IF solid = {} THEN <<>>
        ELSE SubSeq(line,
                    CHOOSE i \in solid : \A j \in solid : i <= j,
                    CHOOSE i \in solid : \A j \in solid : j <= i)

\* The turn of the loop for a line that could be decoded.
LineContributesOneItem ==
    (pc = "r_line" /\ Top.i <= Len(tree[Top.filename])
                   /\ tree[Top.filename][Top.i] # BadLine) =>
        LET f == Top
            line == tree[f.filename][f.i]
            item == Stripped(line)
        IN  IF line # <<>> /\ line[1] = "#"
            THEN stack' = Append(Callers, [f EXCEPT !.i = f.i + 1])
            ELSE IF starts_with(item, GroupPrefix)
            THEN stack' = Append(stack, [filename |-> TreePath(item),
                                         depth |-> f.depth + 1,
                                         i |-> 1, results |-> <<>>])
            ELSE stack' = Append(Callers, [f EXCEPT !.i = f.i + 1,
                                                    !.results = f.results \o <<item>>])

\* The return of a nested call that resolved: its tokens come after what the
\* caller has collected, and the caller moves to its next line.
NestedListContributesInPlace ==
    (pc = "r_return" /\ Len(stack) >= 2 /\ Top.ok) =>
        LET f == stack[Len(stack) - 1]
        IN  stack' = Append(SubSeq(stack, 1, Len(stack) - 2),
                            [f EXCEPT !.i = f.i + 1, !.results = f.results \o Top.val])

(* C12. In read_package_list a line is skipped exactly when its raw first *)
(* character is '#'; every other line, trimmed, adds one item after what  *)
(* was collected: the tokens of the group it refers to when it starts     *)
(* with "groups/", else itself as a literal, an empty one for an empty or *)
(* whitespace-only line.                                                  *)
C12_LineIsCommentOrOneItem ==
    [][LineContributesOneItem /\ NestedListContributesInPlace]_vars

\* An indented '#' line and an empty line give the literals "#x" and "";
\* the '#' line of the second group gives nothing.
C12_Witness ==
    /\ InExpand /\ Done
    /\ tree = TreeGood
    /\ args = <<Gq, Ga>>
    /\ ret = Ok(<< <<"#", "x">>, <<>>, P1, P2 >>)

-----------------------------------------------------------------------------
(* C13. format_duration, read back from the text it produced.             *)

InFormat == fn = "format_duration"

\* The number a text of decimal digits denotes.
RECURSIVE Value(_)
Value(text) ==
    IF text = <<>> THEN 0
    ELSE Value(SubSeq(text, 1, Len(text) - 1)) * 10
         + (CHOOSE d \in 0..9 : DigitChars[d + 1] = text[Len(text)])

IsDigits(text) ==
    \A i \in 1..Len(text) : \E d \in 0..9 : DigitChars[d + 1] = text[i]

\* The positions of the colons of a text, and its three fields.
Colons(text) == {i \in 1..Len(text) : text[i] = ":"}
FirstColon(text) == CHOOSE i \in Colons(text) : \A j \in Colons(text) : i <= j
LastColon(text) == CHOOSE i \in Colons(text) : \A j \in Colons(text) : j <= i
HoursField(text) == SubSeq(text, 1, FirstColon(text) - 1)
MinutesField(text) == SubSeq(text, FirstColon(text) + 1, LastColon(text) - 1)
SecondsField(text) == SubSeq(text, LastColon(text) + 1, Len(text))

(* C13. For t seconds, t not negative, format_duration gives three fields *)
(* of decimal digits separated by two colons: the minutes and the seconds *)
(* have two digits and are in 0..59, the hours have two digits or as many *)
(* as their value needs, without further leading zeros, hours * 3600 +    *)
(* minutes * 60 + seconds is t and the hours are t / 3600; 3661 gives     *)
(* "01:01:01", 0 gives "00:00:00" and 360000 gives "100:00:00".           *)
C13_FormatIsHoursMinutesSeconds ==
    (InFormat /\ Done) =>
        LET text == ret.val
            hh == HoursField(text)
            mm == MinutesField(text)
            ss == SecondsField(text)
        IN  /\ ret.ok
            /\ Cardinality(Colons(text)) = 2
            /\ IsDigits(hh) /\ IsDigits(mm) /\ IsDigits(ss)
            /\ Len(mm) = 2 /\ Len(ss) = 2
            /\ Value(mm) \in 0..59 /\ Value(ss) \in 0..59
            /\ Value(hh) * 3600 + Value(mm) * 60 + Value(ss) = args
            /\ Value(hh) = args \div 3600
            /\ Len(hh) >= 2
            /\ Len(hh) > 2 => hh[1] # "0"
            /\ args = 3661 => text = <<"0", "1", ":", "0", "1", ":", "0", "1">>
            /\ args = 0 => text = <<"0", "0", ":", "0", "0", ":", "0", "0">>
            /\ args = 360000 => text = <<"1", "0", "0", ":", "0", "0", ":", "0", "0">>

\* A hundred hours and more: three digits of hours, and no wraparound.
C13_Witness ==
    /\ InFormat /\ Done
    /\ args = 363599
    /\ ret = Ok(<<"1", "0", "0", ":", "5", "9", ":", "5", "9">>)

-----------------------------------------------------------------------------
(* C14. cleanup_outputs.                                                  *)

InCleanup == fn = "cleanup_outputs"

\* A top-level entry that is a directory named with "OUTPUT-" in front.
Matches(dir, name) ==
    /\ dir[name].kind = "dir"
    /\ Len(name) >= 7
    /\ SubSeq(name, 1, 7) = <<"O", "U", "T", "P", "U", "T", "-">>

\* A step leaves every entry that does not match as it is, what is below it
\* included, and adds no entry.
OtherEntriesUnchanged ==
    /\ DOMAIN cwd' \subseteq DOMAIN cwd
    /\ \A n \in DOMAIN cwd : ~Matches(cwd, n) => (n \in DOMAIN cwd' /\ cwd'[n] = cwd[n])

\* After a successful run no matching entry is left, and each one that was
\* there when the walk began has been removed by one call.
MatchingEntriesRemoved ==
    (InCleanup /\ Done /\ ret.ok) =>
        /\ \A n \in DOMAIN cwd : ~Matches(cwd, n)
        /\ \A k \in 1..Len(trace) :
            /\ ~trace[k].failed
            /\ Matches(DirSample, trace[k].name)
            /\ \A j \in 1..Len(trace) : trace[j].name = trace[k].name => j = k

(* C14. After a successful cleanup_outputs every top-level entry that is  *)
(* a directory whose name begins with "OUTPUT-" has been removed, with    *)
(* what was below it, and no step of the run changes any other entry:     *)
(* files and links named with the prefix, directories named in another    *)
(* case or without the dash, and what lies below a directory that does    *)
(* not match.                                                             *)
C14_CleanupRemovesOutputDirsOnly ==
    /\ []MatchingEntriesRemoved
    /\ [][OtherEntriesUnchanged]_vars

\* Both matching directories removed from the full sample; the five other
\* entries are as they were.
C14_Witness ==
    /\ InCleanup /\ Done /\ ret.ok
    /\ Len(trace) = 2
    /\ DOMAIN cwd = DOMAIN DirSample \ {OutputPrefix, OutputPrefix \o <<"a">>}
    /\ \A n \in DOMAIN cwd : cwd[n] = DirSample[n]

-----------------------------------------------------------------------------
(* C15. A configuration that cannot be loaded.                            *)

\* package_fetch and package_build in a workspace without a configuration
\* return the error and have called and written nothing.
FetchAndBuildNeedConfig ==
    ((InFetch \/ InBuild) /\ config = NoConf /\ Done) =>
        /\ ret = Err(ConfigError)
        /\ trace = <<>>
        /\ log = <<>>

\* The same of cleanup_outputs: an error, and no directory removed.
CleanupNeedsConfig ==
    (InCleanup /\ config = NoConf /\ Done) =>
        /\ ~ret.ok
        /\ trace = <<>>

(* C15. In a workspace whose configuration cannot be loaded, each of      *)
(* package_fetch, package_build and cleanup_outputs returns an error and  *)
(* has performed none of its side effects: no mount, rollback, command,   *)
(* repository refresh, change of CIEL_OFFLINE or removal of a directory.  *)
C15_MissingConfigIsFatal == FetchAndBuildNeedConfig /\ CleanupNeedsConfig

-----------------------------------------------------------------------------
(* C16. Failed calls and nonzero exits in package_build.                  *)

\* A collaborator call that failed is the last call of the run, and the run
\* has returned an error.
FailedCallHaltsAsError ==
    InBuild =>
        \A k \in 1..Len(trace) :
            Failed(trace[k]) => (k = Len(trace) /\ Done /\ ~ret.ok)

\* The exit status of a command that exited nonzero is what the run returns.
NonzeroExitIsReturnedStatus ==
    (InBuild /\ Done) =>
        \A k \in 1..Len(trace) :
            (trace[k].op = "run_in_container" /\ ExitedNonzero(trace[k])) =>
                ret = Ok(trace[k].status)

(* C16. In package_build a collaborator call that fails (mount, rollback, *)
(* repository refresh, running a command) halts the run as an error, with *)
(* no further call, and a nonzero exit of a command is always what the    *)
(* run returns as its status, never an error.                             *)
C16_FailuresHaltExitsAreReturned ==
    FailedCallHaltsAsError /\ NonzeroExitIsReturnedStatus

-----------------------------------------------------------------------------
(* C17. The order of package_build's own calls in local-repo mode.        *)

\* The k-th own call of a run: a mount and a rollback, then for each
\* package a mount, the repository refresh, the update script, the build
\* invocation and a rollback.
StepOf(k) ==
    IF k = 1 THEN "mount"
    ELSE IF k = 2 THEN "rollback"
    ELSE CASE (k - 3) % 5 = 0 -> "mount"
           [] (k - 3) % 5 = 1 -> "refresh"
           [] (k - 3) % 5 = 2 -> "update"
           [] (k - 3) % 5 = 3 -> "build"
           [] (k - 3) % 5 = 4 -> "rollback"

IsStep(e, step) ==
    CASE step = "mount" -> IsMount(e)
      [] step = "rollback" -> IsRollback(e)
      [] step = "refresh" -> IsRefresh(e)
      [] step = "update" -> IsUpdateRun(e)
      [] step = "build" -> IsBuildRun(e)

\* An own call after which the run goes no further.
Halts(e) == Failed(e) \/ (e.op = "run_in_container" /\ ExitedNonzero(e))

(* C17. In local-repo mode package_build's own calls are, in order, one   *)
(* mount and one rollback and then per package a mount, the repository    *)
(* refresh, the update script, the build invocation and a rollback, up to *)
(* the first call that fails or exits nonzero; so a rollback lies between *)
(* any two build invocations, there is one refresh per package whose      *)
(* update script or build was run, and a run of N packages that returns 0 *)
(* has made 1 + N rollbacks itself, the last of its calls being one.      *)
C17_IterationStepsInOrder ==
    LocalRepoMode =>
        /\ \A k \in 1..Len(Own) :
            /\ IsStep(Own[k], StepOf(k))
            /\ Halts(Own[k]) => k = Len(Own)
        /\ \A i, j \in Positions(IsBuildRun) :
            i < j => \E r \in Positions(IsRollback) :
                        i < r /\ r < j /\ trace[r].by = "package_build"
        /\ Len(Refreshes) >= Len(UpdateRuns)
        /\ Len(Refreshes) <= Len(UpdateRuns) + 1
        /\ Len(UpdateRuns) >= Len(BuildRuns)
        /\ (Done /\ ret = Ok(0)) =>
            /\ Len(Own) = 2 + 5 * Len(packages)
            /\ Len(SelectSeq(Own, IsRollback)) = 1 + Len(packages)
            /\ Len(Refreshes) = Len(packages)
            /\ IsRollback(trace[Len(trace)])
            /\ trace[Len(trace)].by = "package_build"

\* Three packages built after a pre-fetch: seventeen own calls, four of them
\* rollbacks.
C17_Witness ==
    /\ LocalRepoMode /\ Done /\ ret = Ok(0)
    /\ Len(packages) = 3
    /\ Len(FetchRuns) = 1
    /\ Len(Own) = 17
    /\ Len(SelectSeq(Own, IsRollback)) = 4

-----------------------------------------------------------------------------
(* C18. Which group tokens fail, told from the tree alone. The trees of   *)
(* SpecExpand have fewer files than the depth cap, so a chain of          *)
(* references exceeds the cap exactly when it runs into a cycle.          *)

\* The files a file refers to, by the lines that are not comments.
RefsOf(t, p) ==
    IF p \notin DOMAIN t THEN {}
    ELSE {TreePath(Stripped(t[p][i])) :
            i \in {j \in 1..Len(t[p]) :
                    /\ t[p][j] # BadLine
                    /\ ~(t[p][j] # <<>> /\ t[p][j][1] = "#")
                    /\ starts_with(Stripped(t[p][j]), GroupPrefix)}}

\* The files reached from those of S by at most n references.
RECURSIVE ReachFrom(_, _, _)
ReachFrom(t, S, n) ==
    IF n = 0 THEN S
    ELSE ReachFrom(t, S \cup UNION {RefsOf(t, p) : p \in S}, n - 1)

\* A file that is missing, has a line that cannot be read, or refers back to
\* itself through some chain.
Broken(t, p) ==
    \/ p \notin DOMAIN t
    \/ \E i \in 1..Len(t[p]) : t[p][i] = BadLine
    \/ p \in ReachFrom(t, RefsOf(t, p), Cardinality(DOMAIN t))

\* Some reference under the group token fails.
FailsUnder(t, token) ==
    \E p \in ReachFrom(t, {TreePath(token)}, Cardinality(DOMAIN t) + 1) : Broken(t, p)

\* The tokens of the input other than the group tokens that fail.
Surviving(t, tokens) ==
    LET Keep(x) == ~(starts_with(x, GroupPrefix) /\ FailsUnder(t, x))
    IN  SelectSeq(tokens, Keep)

\* An error returned by a call is returned by the call around it, and at
\* expand_package_list it leaves `expanded` as it was.
ErrorPassesThroughEveryCall ==
    (pc = "r_return" /\ ~Top.ok) =>
        IF Len(stack) >= 2
        THEN stack' = Append(SubSeq(stack, 1, Len(stack) - 2), Top)
        ELSE expanded' = expanded

\* The group tokens under which a reference fails are those that leave a
\* warning, and the list returned is the flattening of the other tokens.
FailingTokenContributesNothing ==
    (InExpand /\ Done) =>
        /\ \A i \in GroupPositions :
            FailsUnder(tree, args[i]) <=> IsWarnUnable(log[Rank(i)])
        /\ ret = Ok(Flatten(tree, Surviving(tree, args)))

(* C18. A top-level group token under which any reference fails (a        *)
(* missing or unreadable file, or the depth cap) contributes nothing to   *)
(* the expansion, neither the literals read before the failing reference  *)
(* nor those after it: the error passes through every enclosing           *)
(* read_package_list call, and the list returned holds the full contents  *)
(* of the other tokens only.                                              *)
C18_GroupIsAllOrNothing ==
    /\ []FailingTokenContributesNothing
    /\ [][ErrorPassesThroughEveryCall]_vars

\* A group with a literal on each side of a reference to a missing file,
\* between a literal and a group that resolves.
C18_Witness ==
    /\ InExpand /\ Done
    /\ tree = TreeFaulty
    /\ args = <<P1, Gb, Ga>>
    /\ log = <<WarnUnable(Gb, IoError), InfoRead(1, Ga)>>
    /\ ret = Ok(<<P1, P2>>)

-----------------------------------------------------------------------------
(* C19. In local-repo mode the package list that package_build loops over *)
(* is the flattening of the input tokens without the group tokens that    *)
(* fail; when it is empty (no input token, or only group tokens that fail *)
(* or resolve to nothing) the run makes no refresh, runs no update script *)
(* and no build, returns 0 and writes the summary with a count of 0; and  *)
(* a run in which group tokens were dropped returns 0 when every update   *)
(* script and build of the remaining packages exits 0 and no call fails.  *)
C19_EmptyExpansionSucceeds ==
    (LocalRepoMode /\ Done /\ ExpansionReturned) =>
        /\ packages = Flatten(tree, Surviving(tree, args))
        /\ packages = <<>> =>
            /\ ret = Ok(0)
            /\ \E k \in 1..Len(log) : log[k] = Summary(0)
            /\ Refreshes = <<>> /\ UpdateRuns = <<>> /\ BuildRuns = <<>>
            /\ Len(Own) = 2
        /\ (AllExitedZero /\ NoCallFailed) => ret = Ok(0)

\* One group token that fails on the depth cap and nothing else: the warning,
\* then the summary of no packages.
C19_Witness ==
    /\ LocalRepoMode /\ Done
    /\ tree = TreeFaulty
    /\ args = <<Gloop>>
    /\ packages = <<>>
    /\ \E k \in 1..Len(log) : log[k] = WarnUnable(Gloop, DepthError)
    /\ \E k \in 1..Len(log) : log[k] = Summary(0)
    /\ ret = Ok(0)

-----------------------------------------------------------------------------
(* C20. CIEL_OFFLINE over the calls of one process that started without   *)
(* it.                                                                    *)

\* No step clears the toggle, and the only step that sets it is line 122.
ToggleOnlySet ==
    /\ env => env'
    /\ env' # env => pc = "b_set_var"

\* Line 122 is reached only from a pre-fetch pass that returned a status:
\* the call before it is the fetch invocation, and it did not fail.
ToggleSetAfterCompletedPrefetch ==
    pc = "b_set_var" =>
        /\ env'
        /\ trace # <<>>
        /\ IsFetchRun(trace[Len(trace)])
        /\ ~trace[Len(trace)].failed

\* With the toggle set, a package_build call has run the pre-fetch pass and
\* set the toggle again before any call of its own, whatever its flag.
CallsUnderToggleAreOffline ==
    (InBuild /\ env /\ Own # <<>>) =>
        /\ Len(FetchRuns) = 1
        /\ Len(Events(IsSetVar)) = 1
        /\ \A k \in Positions(OwnCall) :
            \E j, i \in 1..k : j < i /\ i < k /\ IsFetchRun(trace[j]) /\ IsSetVar(trace[i])

(* C20. CIEL_OFFLINE is only ever set: no step clears it, it is set only  *)
(* by package_build after its pre-fetch pass returned a status (not when  *)
(* the pass failed with an error), and once it is set every package_build *)
(* call of the process runs the pre-fetch pass and sets it again before   *)
(* its own calls, also with offline = false.                              *)
C20_ToggleIsOnlyEverSet ==
    /\ [][ToggleOnlySet /\ ToggleSetAfterCompletedPrefetch]_vars
    /\ []CallsUnderToggleAreOffline

\* A later call with offline = false in a process that started without the
\* toggle: it pre-fetched, and built in offline mode.
C20_Witness ==
    /\ InBuild /\ Done /\ ~offline /\ env
    /\ Len(FetchRuns) = 1
    /\ BuildRuns # <<>>
    /\ ret = Ok(0)

=============================================================================
